---- MODULE Spec2Model ----
(***************************************************************************)
(* tool-types: type-level utilities over object-shape types.               *)
(*                                                                         *)
(* A type is a record [kind, name, props]:                                 *)
(*   kind = "prim"   : a primitive, identified by name;                    *)
(*   kind = "object" : an object shape; props maps each key name to        *)
(*                     [ty, opt, ro] = (declared type, optional?, readonly?) *)
(*   kind = "tuple"  : a tuple type; props maps each index "0", "1", ...   *)
(*                     to its element; name = "readonly" for a readonly    *)
(*                     tuple;                                              *)
(*   kind = "array"  : an array type; props maps "number" to the element   *)
(*                     type; name = "readonly" for a readonly array.       *)
(* A union of key names is a set of strings; a union of types is a set of  *)
(* types.  Every utility is an operator computed the way the host type     *)
(* checker evaluates its declaration; an action applies one utility at a   *)
(* use site.  What the declarations leave to the build is state chosen in  *)
(* Init: strictNullChecks (the compiler option) and readonlyIfAll (how the *)
(* compiler version resolves readonly on a property of an intersection).   *)
(***************************************************************************)
EXTENDS Integers, Sequences, FiniteSets, TLC

VARIABLES T, strictNullChecks, readonlyIfAll, cur, hist, U, Keys, keysOut, boolOut, unionOut

vars == <<T, strictNullChecks, readonlyIfAll, cur, hist, U, Keys, keysOut, boolOut, unionOut>>

(* ------------------------------ bounds --------------------------------- *)

\* levels of object-valued keys below the top-level shape
MaxDepth == 2
\* length of a chain of nested Deep* applications, e.g. DeepMutable<DeepReadOnly<T>>
MaxChain == 2
\* number of elements of a tuple type
MaxTuple == 3

(* --------------------------- type universe ----------------------------- *)

NoProps == [k \in {} |-> TRUE]

Prim(n) == [kind |-> "prim", name |-> n, props |-> NoProps]

Obj(p) == [kind |-> "object", name |-> "", props |-> p]

EmptyShape == Obj(NoProps)

Never == Prim("never")

\* the member `undefined` of a union of key names
Undefined == "undefined"

TopPrims == {Prim("string"), Prim("number")}

InnerKeys == {"data"}

InnerPrims == {Prim("number")}

\* every object shape over a subset of keys with value types drawn from vals
ShapesOver(keys, vals) ==
    UNION { { Obj(p) : p \in [ks -> [ty : vals, opt : BOOLEAN, ro : BOOLEAN]] }
            : ks \in SUBSET keys }

RECURSIVE InnerShapes(_)
InnerShapes(d) ==
    IF d = 0 THEN {}
    ELSE ShapesOver(InnerKeys, InnerPrims \cup InnerShapes(d - 1))

\* the shape with the keys of a and of b, which share none
Join(a, b) ==
    Obj([k \in DOMAIN a.props \cup DOMAIN b.props |->
            IF k \in DOMAIN a.props THEN a.props[k] ELSE b.props[k]])

\* the input shapes: a key name of primitive type and a key next whose type is
\* primitive or an object shape nested up to MaxDepth levels, each key present
\* or not, optional or not, read-only or not
Shapes ==
    { Join(a, b) : a \in ShapesOver({"name"}, TopPrims),
                   b \in ShapesOver({"next"}, TopPrims \cup InnerShapes(MaxDepth)) }

\* string literal types, as in ['a', 'b', 'c']
Literals == {Prim("'a'"), Prim("'b'"), Prim("'c'")}

IndexName == <<"0", "1", "2", "3", "4", "5">>

Marker(readonly) == IF readonly THEN "readonly" ELSE ""

\* [e1, ..., en] or readonly [e1, ..., en], for the sequence s of element types
Tuple(s, readonly) ==
    [kind  |-> "tuple",
     name  |-> Marker(readonly),
     props |-> [i \in { IndexName[j] : j \in 1..Len(s) } |->
                  [ty  |-> s[CHOOSE j \in 1..Len(s) : IndexName[j] = i],
                   opt |-> FALSE,
                   ro  |-> readonly]]]

\* e[] or readonly e[]
ArrayOf(e, readonly) ==
    [kind  |-> "array",
     name  |-> Marker(readonly),
     props |-> [i \in {"number"} |-> [ty |-> e, opt |-> FALSE, ro |-> readonly]]]

\* the tuple and array types tried as type argument: tuples of up to MaxTuple
\* literals and arrays of a literal or primitive, each mutable or readonly
ArrayLikes ==
    UNION { { Tuple(s, r) : s \in [1..n -> Literals], r \in BOOLEAN }
            : n \in 0..MaxTuple }
    \cup { ArrayOf(e, r) : e \in Literals \cup TopPrims, r \in BOOLEAN }

(* ------------------------- host type operators ------------------------- *)

\* keyof T
keyof(t) == DOMAIN t.props

\* Extract<A, B> and Exclude<A, B> on unions of key names
Extract(a, b) == a \cap b

Exclude(a, b) == a \ b

\* Pick<T, K> = { [P in K]: T[P] }: homomorphic, keeps optionality and mutability
Pick(t, ks) == Obj([k \in ks |-> t.props[k]])

\* Required<T> = { [P in keyof T]-?: T[P] }
Required(t) == Obj([k \in keyof(t) |-> [t.props[k] EXCEPT !.opt = FALSE]])

\* Partial<T> = { [P in keyof T]?: T[P] }
Partial(t) == Obj([k \in keyof(t) |-> [t.props[k] EXCEPT !.opt = TRUE]])

\* A & B on object shapes, as the properties the checker resolves for it: a
\* property is optional only if it is so in every constituent that declares
\* it.  It is read-only if every such constituent has it read-only (current
\* compilers, readonlyIfAll) or if any has (earlier compilers)
InterProp(p, q) ==
    [ty  |-> IF p.ty = q.ty THEN p.ty ELSE Never,
     opt |-> p.opt /\ q.opt,
     ro  |-> IF readonlyIfAll THEN p.ro /\ q.ro ELSE p.ro \/ q.ro]

And(a, b) ==
    Obj([k \in keyof(a) \cup keyof(b) |->
            IF k \in keyof(a) /\ k \in keyof(b) THEN InterProp(a.props[k], b.props[k])
            ELSE IF k \in keyof(a) THEN a.props[k]
            ELSE b.props[k]])

\* T[P] extends object, inside a mapped type over keyof T: the read type of an
\* optional key includes undefined under strictNullChecks, and the conditional
\* is not distributive, so the test then fails
ExtendsObject(p) ==
    p.ty.kind = "object" /\ ~(strictNullChecks /\ p.opt)

\* {} extends S
EmptyExtends(s) == \A k \in keyof(s) : s.props[k].opt

\* T extends Array<infer U>: a mutable tuple or array is an Array of the
\* union of its element types; a readonly one is a ReadonlyArray, which lacks
\* Array's mutating methods, and no other type has them either
ExtendsArray(t) == t.kind \in {"tuple", "array"} /\ t.name # "readonly"

\* the U inferred from Array<infer U>: never for the empty tuple
InferElement(t) == { t.props[i].ty : i \in DOMAIN t.props }

(* ---------------------------- the utilities ---------------------------- *)

\* a union of types is the set of its members; never is the empty union
TupleUnion(t) == IF ExtendsArray(t) THEN InferElement(t) ELSE {}


\* Intersect with the Extract forgotten
Intersect_AllKeys(t, u) == Pick(t, keyof(t))

Intersect(t, u) == Pick(t, Extract(keyof(t), keyof(u)))

Except(t, u) == Pick(t, Exclude(keyof(t), keyof(u)))

RECURSIVE DeepPartial(_)
DeepPartial(t) ==
    Obj([k \in keyof(t) |->
            [ty  |-> IF ExtendsObject(t.props[k])
                     THEN DeepPartial(t.props[k].ty) ELSE t.props[k].ty,
             opt |-> TRUE,
             ro  |-> t.props[k].ro]])

\* -? also takes undefined off the property's type, but only after the
\* conditional has been resolved on T[P]
RECURSIVE DeepRequired(_)
DeepRequired(t) ==
    Obj([k \in keyof(t) |->
            [ty  |-> IF ExtendsObject(t.props[k])
                     THEN DeepRequired(t.props[k].ty) ELSE t.props[k].ty,
             opt |-> FALSE,
             ro  |-> t.props[k].ro]])

RECURSIVE DeepReadOnly(_)
DeepReadOnly(t) ==
    Obj([k \in keyof(t) |->
            [ty  |-> IF ExtendsObject(t.props[k])
                     THEN DeepReadOnly(t.props[k].ty) ELSE t.props[k].ty,
             opt |-> t.props[k].opt,
             ro  |-> TRUE]])

\* DeepMutable without the recursion into object-valued keys
DeepMutable_Shallow(t) ==
    Obj([k \in keyof(t) |-> [t.props[k] EXCEPT !.ro = FALSE]])

RECURSIVE DeepMutable(_)
DeepMutable(t) ==
    Obj([k \in keyof(t) |->
            [ty  |-> IF ExtendsObject(t.props[k])
                     THEN DeepMutable(t.props[k].ty) ELSE t.props[k].ty,
             opt |-> t.props[k].opt,
             ro  |-> FALSE]])

\* { [P in U]?: T[P] }, { readonly [P in U]: T[P] }: U extends keyof T, so the
\* mapped type is homomorphic in T and keeps the modifiers it does not set
PartialMapped(t, u) == Obj([k \in u |-> [t.props[k] EXCEPT !.opt = TRUE]])

ReadonlyMapped(t, u) == Obj([k \in u |-> [t.props[k] EXCEPT !.ro = TRUE]])

PartialByKeys(t, u) == And(t, PartialMapped(t, u))

ReadOnlyByKeys(t, u) == And(t, ReadonlyMapped(t, u))

MutableByKeys(t, u) == And(t, ReadonlyMapped(t, u))

\* M[keyof T] for a mapped type M over keyof T whose property types are unions
\* of key names: the union of the read types of M's properties; the read type
\* of an optional property includes undefined under strictNullChecks
IndexedAccess(m) ==
    UNION { m[k].ty \cup (IF strictNullChecks /\ m[k].opt THEN {Undefined} ELSE {})
            : k \in DOMAIN m }

PickAllKeys(t) ==
    IndexedAccess([p \in keyof(t) |-> [ty |-> {p}, opt |-> FALSE]])

PickRequiredKeys(t) ==
    IndexedAccess([p \in keyof(t) |->
        [ty  |-> IF EmptyExtends(Pick(t, {p})) THEN {} ELSE {p},
         opt |-> FALSE]])

\* PickPartialKeys with the -? left off the mapped type
PickPartialKeys_KeepOptional(t) ==
    IndexedAccess([p \in keyof(t) |->
        [ty  |-> IF EmptyExtends(Pick(t, {p})) THEN {p} ELSE {},
         opt |-> t.props[p].opt]])

PickPartialKeys(t) ==
    IndexedAccess([p \in keyof(t) |->
        [ty  |-> IF EmptyExtends(Pick(t, {p})) THEN {p} ELSE {},
         opt |-> FALSE]])

\* Pick<T, K> with K a union that may hold undefined: only key names select
PickRequired(t) == Pick(t, PickRequiredKeys(t) \cap keyof(t))

PickPartial(t) == Pick(t, PickPartialKeys(t) \cap keyof(t))

\* the identity relation the checker applies to the two conditional types'
\* extends-types: same kind, same keys, and per key the same optionality,
\* the same mutability and identical value types
RECURSIVE IsTypeIdenticalTo(_, _)
IsTypeIdenticalTo(a, b) ==
    /\ a.kind = b.kind
    /\ a.kind = "prim" => a.name = b.name
    /\ a.kind = "object" =>
        /\ keyof(a) = keyof(b)
        /\ \A k \in keyof(a) :
            /\ a.props[k].opt = b.props[k].opt
            /\ a.props[k].ro = b.props[k].ro
            /\ IsTypeIdenticalTo(a.props[k].ty, b.props[k].ty)

\* Equal as mutual assignability (T extends U and U extends T): a required
\* key fills an optional one, and readonly plays no part
RECURSIVE IsAssignableTo(_, _)
IsAssignableTo(a, b) ==
    /\ a.kind = b.kind
    /\ a.kind = "prim" => a.name = b.name
    /\ a.kind = "object" =>
        \A k \in keyof(b) :
            IF k \in keyof(a)
            THEN /\ a.props[k].opt => b.props[k].opt
                 /\ IsAssignableTo(a.props[k].ty, b.props[k].ty)
            ELSE b.props[k].opt

Equal_MutuallyAssignable(t, u) == IsAssignableTo(t, u) /\ IsAssignableTo(u, t)

Equal(t, u) == IsTypeIdenticalTo(t, u)

\* no -? on the mapped type: an optional key of T stays optional in it
PickReadOnlyKeys(t) ==
    IndexedAccess([p \in keyof(t) |->
        [ty  |-> IF Equal(Pick(t, {p}), ReadonlyMapped(t, {p})) THEN {p} ELSE {},
         opt |-> t.props[p].opt]])

PickMutableKeys(t) ==
    IndexedAccess([p \in keyof(t) |->
        [ty  |-> IF Equal(Pick(t, {p}), ReadonlyMapped(t, {p})) THEN {} ELSE {p},
         opt |-> t.props[p].opt]])

\* RequireAtLeastOne with Required<> left off the chosen key
RequireAtLeastOne_NoRequired(t) ==
    { And(Pick(t, {k}), Partial(Pick(t, Exclude(keyof(t), {k}))))
      : k \in keyof(t) }

\* a union of shapes is the set of its alternatives; -? keeps undefined out of it
RequireAtLeastOne(t) ==
    { And(Required(Pick(t, {k})), Partial(Pick(t, Exclude(keyof(t), {k}))))
      : k \in keyof(t) }

\* RequireAtLeastOneByKeys without the keys outside Keys
RequireAtLeastOneByKeys_NoRest(t, keys) ==
    { And(Required(Pick(t, {k})), Partial(Pick(t, Exclude(keys, {k}))))
      : k \in keys }

\* A & (B | C) is (A & B) | (A & C)
RequireAtLeastOneByKeys(t, keys) ==
    { And(Pick(t, Exclude(keyof(t), keys)),
          And(Required(Pick(t, {k})), Partial(Pick(t, Exclude(keys, {k})))))
      : k \in keys }

(* ------------------------------ actions -------------------------------- *)

DeepNames == {"DeepPartial", "DeepRequired", "DeepReadOnly", "DeepMutable"}

NoKeysOut == [n \in {} |-> {}]

\* second type arguments tried beside the input itself
OtherShapes ==
    { Obj([k \in ks |-> [ty |-> Prim("string"), opt |-> FALSE, ro |-> FALSE]])
      : ks \in SUBSET {"name", "next", "address"} }

\* the types one edit away from t: a key's optionality or mutability flipped,
\* a key dropped, or a key's value type replaced
RECURSIVE Variants(_)
Variants(t) ==
    { Obj([t.props EXCEPT ![k].opt = ~@]) : k \in keyof(t) }
    \cup { Obj([t.props EXCEPT ![k].ro = ~@]) : k \in keyof(t) }
    \cup { Pick(t, keyof(t) \ {k}) : k \in keyof(t) }
    \cup UNION { { Obj([t.props EXCEPT ![k].ty = v])
                   : v \in (TopPrims
                            \cup (IF t.props[k].ty.kind = "object"
                                  THEN Variants(t.props[k].ty) ELSE {EmptyShape}))
                           \ {t.props[k].ty} }
                 : k \in keyof(t) }

Init ==
    /\ T \in Shapes \cup ArrayLikes \cup TopPrims
    /\ strictNullChecks \in BOOLEAN
    /\ readonlyIfAll \in BOOLEAN
    /\ cur = T
    /\ hist = <<>>
    /\ U = EmptyShape
    /\ Keys = {}
    /\ keysOut = NoKeysOut
    /\ boolOut = FALSE
    /\ unionOut = {}

\* the utilities over object shapes are applied to an object shape
IsShape == T.kind = "object"

\* nothing has been applied to the input yet
Fresh == IsShape /\ hist = <<>> /\ DOMAIN keysOut = {}

\* a Deep* utility may wrap the input or another Deep* application
CanChain ==
    /\ IsShape
    /\ DOMAIN keysOut = {}
    /\ Len(hist) < MaxChain
    /\ \A i \in 1..Len(hist) : hist[i] \in DeepNames

\* a utility whose result is a shape: the result becomes cur
Shaped(name, r, u, ks) ==
    /\ cur' = r
    /\ hist' = Append(hist, name)
    /\ U' = u
    /\ Keys' = ks
    /\ UNCHANGED <<T, strictNullChecks, readonlyIfAll, keysOut, boolOut, unionOut>>

\* a utility whose result is a union of key names: recorded under its name
KeyQuery(name, r) ==
    /\ IsShape
    /\ hist = <<>>
    /\ name \notin DOMAIN keysOut
    /\ keysOut' = [n \in DOMAIN keysOut \cup {name} |->
                      IF n = name THEN r ELSE keysOut[n]]
    /\ UNCHANGED <<T, strictNullChecks, readonlyIfAll, cur, hist, U, Keys, boolOut, unionOut>>

ApplyDeepPartial ==
    /\ CanChain
    /\ Shaped("DeepPartial", DeepPartial(cur), U, Keys)

ApplyDeepRequired ==
    /\ CanChain
    /\ Shaped("DeepRequired", DeepRequired(cur), U, Keys)

ApplyDeepReadOnly ==
    /\ CanChain
    /\ Shaped("DeepReadOnly", DeepReadOnly(cur), U, Keys)

ApplyDeepMutable ==
    /\ CanChain
    /\ Shaped("DeepMutable", DeepMutable(cur), U, Keys)

ApplyIntersect ==
    /\ Fresh
    /\ \E u \in {T} \cup OtherShapes : Shaped("Intersect", Intersect(T, u), u, {})

ApplyExcept ==
    /\ Fresh
    /\ \E u \in {T} \cup OtherShapes : Shaped("Except", Except(T, u), u, {})

ApplyPartialByKeys ==
    /\ Fresh
    /\ \E u \in SUBSET keyof(T) : Shaped("PartialByKeys", PartialByKeys(T, u), U, u)

ApplyReadOnlyByKeys ==
    /\ Fresh
    /\ \E u \in SUBSET keyof(T) : Shaped("ReadOnlyByKeys", ReadOnlyByKeys(T, u), U, u)

ApplyMutableByKeys ==
    /\ Fresh
    /\ \E u \in SUBSET keyof(T) : Shaped("MutableByKeys", MutableByKeys(T, u), U, u)

ApplyPickRequired ==
    /\ Fresh
    /\ Shaped("PickRequired", PickRequired(T), U, Keys)

ApplyPickPartial ==
    /\ Fresh
    /\ Shaped("PickPartial", PickPartial(T), U, Keys)

ApplyPickAllKeys == KeyQuery("PickAllKeys", PickAllKeys(T))

ApplyPickRequiredKeys == KeyQuery("PickRequiredKeys", PickRequiredKeys(T))

ApplyPickPartialKeys == KeyQuery("PickPartialKeys", PickPartialKeys(T))

ApplyPickReadOnlyKeys == KeyQuery("PickReadOnlyKeys", PickReadOnlyKeys(T))

ApplyPickMutableKeys == KeyQuery("PickMutableKeys", PickMutableKeys(T))

ApplyEqual ==
    /\ Fresh
    /\ \E u \in {T} \cup Variants(T) \cup TopPrims :
        /\ boolOut' = Equal(T, u)
        /\ U' = u
        /\ hist' = <<"Equal">>
        /\ UNCHANGED <<T, strictNullChecks, readonlyIfAll, cur, Keys, keysOut, unionOut>>

ApplyRequireAtLeastOne ==
    /\ Fresh
    /\ unionOut' = RequireAtLeastOne(T)
    /\ hist' = <<"RequireAtLeastOne">>
    /\ UNCHANGED <<T, strictNullChecks, readonlyIfAll, cur, U, Keys, keysOut, boolOut>>

\* Keys defaults to keyof T, which is among the subsets tried
ApplyRequireAtLeastOneByKeys ==
    /\ Fresh
    /\ \E ks \in SUBSET keyof(T) :
        /\ unionOut' = RequireAtLeastOneByKeys(T, ks)
        /\ Keys' = ks
        /\ hist' = <<"RequireAtLeastOneByKeys">>
        /\ UNCHANGED <<T, strictNullChecks, readonlyIfAll, cur, U, keysOut, boolOut>>

\* T is unconstrained: any type may be the argument
ApplyTupleUnion ==
    /\ hist = <<>>
    /\ DOMAIN keysOut = {}
    /\ unionOut' = TupleUnion(T)
    /\ hist' = <<"TupleUnion">>
    /\ UNCHANGED <<T, strictNullChecks, readonlyIfAll, cur, U, Keys, keysOut, boolOut>>

Next ==
    \/ ApplyIntersect
    \/ ApplyExcept
    \/ ApplyTupleUnion
    \/ ApplyRequireAtLeastOne
    \/ ApplyRequireAtLeastOneByKeys
    \/ ApplyDeepPartial
    \/ ApplyDeepRequired
    \/ ApplyDeepReadOnly
    \/ ApplyDeepMutable
    \/ ApplyPartialByKeys
    \/ ApplyReadOnlyByKeys
    \/ ApplyMutableByKeys
    \/ ApplyPickAllKeys
    \/ ApplyPickRequiredKeys
    \/ ApplyPickPartialKeys
    \/ ApplyPickRequired
    \/ ApplyPickPartial
    \/ ApplyEqual
    \/ ApplyPickReadOnlyKeys
    \/ ApplyPickMutableKeys

Spec == Init /\ [][Next]_vars

(* ------------------------------ properties ----------------------------- *)

\* every key of t, at every nesting level, is mutable
RECURSIVE AllMutable(_)
AllMutable(t) ==
    \A k \in keyof(t) :
        /\ ~t.props[k].ro
        /\ t.props[k].ty.kind = "object" => AllMutable(t.props[k].ty)

\* t with the read-only marking cleared at every nesting level
RECURSIVE Unmarked(_)
Unmarked(t) ==
    IF t.kind = "prim" THEN t
    ELSE Obj([k \in keyof(t) |->
                [ty |-> Unmarked(t.props[k].ty), opt |-> t.props[k].opt, ro |-> FALSE]])

\* r has exactly T's keys, and outside ks each has T's type, optionality and mutability
FrameKept(r, ks) ==
    /\ keyof(r) = keyof(T)
    /\ \A k \in keyof(T) \ ks : r.props[k] = T.props[k]

\* a value carrying exactly the keys in present, each with the declared type,
\* matches one of the alternatives
Accepts(alts, present) ==
    \E s \in alts : \A k \in keyof(s) : ~s.props[k].opt => k \in present

\* T with key k required and the other keys in ks optional; keys outside ks as in T
Alternative(ks, k) ==
    Obj([j \in keyof(T) |->
            IF j \notin ks THEN T.props[j]
            ELSE [ty |-> T.props[j].ty, opt |-> j # k, ro |-> T.props[j].ro]])

RoundTripDone == hist = <<"DeepReadOnly", "DeepMutable">>

\* C1 as stated: DeepMutable<DeepReadOnly<T>> is identical to T for every T,
\* read-only keys included
C1_RoundTripIdentity == RoundTripDone => cur = T

\* C1 amended: DeepMutable<DeepReadOnly<T>> has T's keys, value types and
\* optionality at every level, and is identical to T when every key of T is
\* mutable at every level
C1_RoundTripOfMutable ==
    RoundTripDone =>
        /\ Unmarked(cur) = Unmarked(T)
        /\ AllMutable(T) => cur = T

C1_Witness ==
    /\ RoundTripDone
    /\ AllMutable(T)
    /\ cur = T
    /\ \E k \in keyof(T) :
        /\ T.props[k].ty.kind = "object"
        /\ keyof(T.props[k].ty) # {}
        /\ ~T.props[k].opt

KeysEvaluated(names) == names \subseteq DOMAIN keysOut

\* C2: PickReadOnlyKeys<T> and PickMutableKeys<T> are disjoint and their union
\* is PickAllKeys<T>, optional keys included
C2_ReadOnlyMutablePartition ==
    KeysEvaluated({"PickReadOnlyKeys", "PickMutableKeys", "PickAllKeys"}) =>
        /\ keysOut["PickReadOnlyKeys"] \cap keysOut["PickMutableKeys"] = {}
        /\ keysOut["PickReadOnlyKeys"] \cup keysOut["PickMutableKeys"]
             = keysOut["PickAllKeys"]

\* C3: in MutableByKeys<T,U> every key in U is mutable and every other key is
\* as in T
C3_MutableByKeysStrips ==
    hist = <<"MutableByKeys">> =>
        /\ FrameKept(cur, Keys)
        /\ \A k \in Keys : ~cur.props[k].ro

\* C4: in ReadOnlyByKeys<T,U> every key in U is read-only, also when mutable
\* in T, and every other key is as in T
C4_ReadOnlyByKeysForces ==
    hist = <<"ReadOnlyByKeys">> =>
        /\ FrameKept(cur, Keys)
        /\ \A k \in Keys : cur.props[k].ro

\* C5: in PartialByKeys<T,U> every key in U is optional, also when required
\* in T, and every other key is as in T
C5_PartialByKeysForces ==
    hist = <<"PartialByKeys">> =>
        /\ FrameKept(cur, Keys)
        /\ \A k \in Keys : cur.props[k].opt

\* C6: Intersect<T,U> keeps exactly T's keys that are keys of U and Except<T,U>
\* exactly those that are not, each as in T; Intersect<T,T> is T and
\* Except<T,T> is {}
C6_IntersectExcept ==
    /\ hist = <<"Intersect">> =>
        /\ keyof(cur) = { k \in keyof(T) : k \in keyof(U) }
        /\ \A k \in keyof(cur) : cur.props[k] = T.props[k]
        /\ U = T => cur = T
    /\ hist = <<"Except">> =>
        /\ keyof(cur) = { k \in keyof(T) : k \notin keyof(U) }
        /\ \A k \in keyof(cur) : cur.props[k] = T.props[k]
        /\ U = T => cur = EmptyShape

C6_Witness ==
    /\ hist = <<"Intersect">>
    /\ U = T
    /\ cur = T
    /\ \E k \in keyof(T) : T.props[k].opt /\ T.props[k].ro
    /\ \E k \in keyof(T) : ~T.props[k].opt /\ ~T.props[k].ro

\* C7: PickRequiredKeys<T> and PickPartialKeys<T> together are PickAllKeys<T>,
\* the key names of T and nothing else; so are the key sets of PickRequired<T>
\* and PickPartial<T>
C7_RequiredPartialCover ==
    /\ KeysEvaluated({"PickRequiredKeys", "PickPartialKeys", "PickAllKeys"}) =>
        /\ keysOut["PickRequiredKeys"] \cup keysOut["PickPartialKeys"]
             = keysOut["PickAllKeys"]
        /\ keysOut["PickAllKeys"] = keyof(T)
    /\ hist = <<"PickRequired">> =>
        keyof(cur) \cup keyof(PickPartial(T)) = PickAllKeys(T)
    /\ hist = <<"PickPartial">> =>
        keyof(cur) \cup keyof(PickRequired(T)) = PickAllKeys(T)

C7_Witness ==
    /\ KeysEvaluated({"PickRequiredKeys", "PickPartialKeys", "PickAllKeys"})
    /\ strictNullChecks
    /\ keysOut["PickRequiredKeys"] # {}
    /\ keysOut["PickPartialKeys"] # {}

\* C8: Equal<T,U> is true exactly when T and U are the same type: same keys,
\* and per key the same optionality, mutability and value type
C8_EqualIffIdentical ==
    hist = <<"Equal">> => (boolOut <=> T = U)

C8_Witness ==
    /\ hist = <<"Equal">>
    /\ ~boolOut
    /\ keyof(U) = keyof(T)
    /\ \E k \in keyof(T) :
        /\ U.props[k].ro # T.props[k].ro
        /\ U.props[k].opt = T.props[k].opt
        /\ U.props[k].ty = T.props[k].ty
        /\ \A j \in keyof(T) \ {k} : U.props[j] = T.props[j]

\* C9: RequireAtLeastOne<T> is the union over each key K of T of T with K
\* required and every other key optional; a value with none of T's keys
\* matches no alternative and a value with any of them matches one
C9_RequireAtLeastOne ==
    hist = <<"RequireAtLeastOne">> =>
        /\ unionOut = { Alternative(keyof(T), k) : k \in keyof(T) }
        /\ \A v \in SUBSET keyof(T) : Accepts(unionOut, v) <=> v # {}

C9_Witness ==
    /\ hist = <<"RequireAtLeastOne">>
    /\ Cardinality(unionOut) = 2
    /\ \E k \in keyof(T) : T.props[k].opt
    /\ \E k \in keyof(T) : ~T.props[k].opt
    /\ ~Accepts(unionOut, {})

\* C10: every alternative of RequireAtLeastOneByKeys<T,Keys> keeps the keys
\* outside Keys as in T; there is one alternative per K in Keys, with K required
\* and the rest of Keys optional; with Keys all of T's keys it accepts the
\* values RequireAtLeastOne<T> accepts
C10_RequireAtLeastOneByKeys ==
    hist = <<"RequireAtLeastOneByKeys">> =>
        /\ unionOut = { Alternative(Keys, k) : k \in Keys }
        /\ \A s \in unionOut : FrameKept(s, Keys)
        /\ Keys = keyof(T) =>
            \A v \in SUBSET keyof(T) :
                Accepts(unionOut, v) <=> Accepts(RequireAtLeastOne(T), v)

C10_Witness ==
    /\ hist = <<"RequireAtLeastOneByKeys">>
    /\ Keys # {}
    /\ unionOut # {}
    /\ \E k \in keyof(T) \ Keys : T.props[k].opt /\ T.props[k].ro
    /\ \E k \in Keys : T.props[k].opt

\* C11: TupleUnion<T> is the union of the element types of T when T is a tuple
\* or array type, and never for every other T
C11_TupleUnion ==
    hist = <<"TupleUnion">> =>
        unionOut = IF T.kind \in {"tuple", "array"}
                   THEN { T.props[i].ty : i \in DOMAIN T.props }
                   ELSE {}

\* the keys of t at every nesting level, each as its [ty, opt, ro]
RECURSIVE PropsAtEveryLevel(_)
PropsAtEveryLevel(t) ==
    UNION { {t.props[k]}
            \cup (IF t.props[k].ty.kind = "object"
                  THEN PropsAtEveryLevel(t.props[k].ty) ELSE {})
            : k \in keyof(t) }

\* a and b have the same keys at every level and the same primitive value types
RECURSIVE SameSkeleton(_, _)
SameSkeleton(a, b) ==
    /\ a.kind = b.kind
    /\ a.kind = "prim" => a = b
    /\ a.kind = "object" =>
        /\ keyof(a) = keyof(b)
        /\ \A k \in keyof(a) : SameSkeleton(a.props[k].ty, b.props[k].ty)

\* C12: each Deep* utility applies its modifier to every key at every nesting
\* level, and leaves the key set of every level and the primitive value types
\* as they are
C12_DeepEveryLevel ==
    /\ hist = <<"DeepPartial">> => (\A p \in PropsAtEveryLevel(cur) : p.opt) /\ SameSkeleton(cur, T)
    /\ hist = <<"DeepRequired">> => (\A p \in PropsAtEveryLevel(cur) : ~p.opt) /\ SameSkeleton(cur, T)
    /\ hist = <<"DeepReadOnly">> => (\A p \in PropsAtEveryLevel(cur) : p.ro) /\ SameSkeleton(cur, T)
    /\ hist = <<"DeepMutable">> => (\A p \in PropsAtEveryLevel(cur) : ~p.ro) /\ SameSkeleton(cur, T)

====
